---- MODULE Spec2Model ----
(***************************************************************************)
(* A model of translator/__init__.py: the five Translator classes, their   *)
(* query methods all() and first(), and the composition methods prepend()  *)
(* and append().                                                           *)
(*                                                                         *)
(* Python values are tagged records.  A str is PyStr(s) with s a sequence  *)
(* of one-character strings; a list is PyList(items); a tuple is           *)
(* PyTuple(items); None is None.  A raised exception is the outcome        *)
(* Raise(name); it propagates through every caller as it does in Python.   *)
(***************************************************************************)
EXTENDS Integers, Sequences, FiniteSets, TLC

None == [t |-> "None"]
PyStr(s) == [t |-> "str", s |-> s]
PyList(items) == [t |-> "list", items |-> items]
PyTuple(items) == [t |-> "tuple", items |-> items]
PyInt(n) == [t |-> "int", n |-> n]
Raise(exc) == [t |-> "raise", exc |-> exc]

IsRaise(v) == v.t = "raise"
IsStr(v) == v.t = "str"
IsList(v) == v.t = "list"
IsTuple(v) == v.t = "tuple"

\* The statements after a call: skipped when the call raised.
Try(v, F(_)) == IF IsRaise(v) THEN v ELSE F(v)

(***************************************************************************)
(* Strings are sequences of one-character strings.                         *)
(***************************************************************************)
Range(f) == {f[i] : i \in DOMAIN f}

\* s[i:] and s[:i] with 1-based i.
Drop(s, n) == SubSeq(s, n + 1, Len(s))
Take(s, n) == SubSeq(s, 1, n)

StartsWith(s, p) == Len(p) <= Len(s) /\ Take(s, Len(p)) = p

\* str.replace(old, new): every non-overlapping occurrence, left to right.
RECURSIVE str_replace(_, _, _)
str_replace(s, old, new) ==
    IF s = <<>> THEN <<>>
    ELSE IF old # <<>> /\ StartsWith(s, old)
    THEN new \o str_replace(Drop(s, Len(old)), old, new)
    ELSE <<Head(s)>> \o str_replace(Tail(s), old, new)

\* str.split(sep) for a one-character separator: at least one part.
RECURSIVE str_split(_, _)
str_split(s, sep) ==
    IF \A i \in 1..Len(s) : s[i] # sep THEN <<s>>
    ELSE LET i == CHOOSE k \in 1..Len(s) :
                      s[k] = sep /\ \A j \in 1..(k - 1) : s[j] # sep
         IN  <<Take(s, i - 1)>> \o str_split(Drop(s, i), sep)

RECURSIVE str_join(_)
str_join(parts) ==
    IF parts = <<>> THEN <<>> ELSE Head(parts) \o str_join(Tail(parts))

LowerLetters ==
    <<"a", "b", "c", "d", "e", "f", "g", "h", "i", "j", "k", "l", "m",
      "n", "o", "p", "q", "r", "s", "t", "u", "v", "w", "x", "y", "z">>
UpperLetters ==
    <<"A", "B", "C", "D", "E", "F", "G", "H", "I", "J", "K", "L", "M",
      "N", "O", "P", "Q", "R", "S", "T", "U", "V", "W", "X", "Y", "Z">>

char_upper(c) ==
    IF c \in Range(LowerLetters)
    THEN UpperLetters[CHOOSE i \in DOMAIN LowerLetters : LowerLetters[i] = c]
    ELSE c
char_lower(c) ==
    IF c \in Range(UpperLetters)
    THEN LowerLetters[CHOOSE i \in DOMAIN UpperLetters : UpperLetters[i] = c]
    ELSE c

str_upper(s) == [i \in 1..Len(s) |-> char_upper(s[i])]
str_lower(s) == [i \in 1..Len(s) |-> char_lower(s[i])]

\* Iterating a Python value: a list or tuple yields its items, a str its
\* characters as one-character strs.
Iter(v) ==
    IF IsStr(v) THEN [i \in 1..Len(v.s) |-> PyStr(<<v.s[i]>>)] ELSE v.items

\* An Extend without the test "if item not in results".
Extend_keepall(results, items) == results \o items

\* results.append(item) for every item not already in results.
RECURSIVE Extend(_, _)
Extend(results, items) ==
    IF items = <<>> THEN results
    ELSE Extend(IF Head(items) \in Range(results) THEN results
                ELSE Append(results, Head(items)),
                Tail(items))

\* "if isinstance(strings, str): strings = [strings]"
AsList(strings) == IF IsStr(strings) THEN PyList(<<strings>>) ELSE strings

(***************************************************************************)
(* Regular expressions.  A compiled pattern is a sequence of atoms: "^",   *)
(* "$", "(", ")", "." and literal characters (groups are not nested and    *)
(* there are no quantifiers, so a match is decided left to right).         *)
(* regex.match() matches at the start of the string and need not reach     *)
(* its end unless the pattern says so.                                     *)
(***************************************************************************)
re_compile(pattern, flags) == [t |-> "regex", pattern |-> pattern, flags |-> flags]

RECURSIVE re_match_at(_, _, _, _, _, _)
re_match_at(regex, i, s, pos, open, groups) ==
    IF i > Len(regex.pattern) THEN [t |-> "match", groups |-> groups]
    ELSE LET c == regex.pattern[i]
             advance(p, o, g) == re_match_at(regex, i + 1, s, p, o, g)
         IN  CASE c = "^" -> IF pos = 1 THEN advance(pos, open, groups) ELSE None
               [] c = "$" -> IF \/ pos = Len(s) + 1
                                \/ (pos = Len(s) /\ s[pos] = "LF")
                             THEN advance(pos, open, groups) ELSE None
               [] c = "(" -> advance(pos, pos, groups)
               [] c = ")" -> advance(pos, open,
                                     Append(groups, SubSeq(s, open, pos - 1)))
               [] c = "." -> IF pos <= Len(s) /\ s[pos] # "LF"
                             THEN advance(pos + 1, open, groups) ELSE None
               [] OTHER -> IF /\ pos <= Len(s)
                              /\ \/ s[pos] = c
                                 \/ /\ "IGNORECASE" \in regex.flags
                                    /\ char_lower(s[pos]) = char_lower(c)
                           THEN advance(pos + 1, open, groups) ELSE None

\* regex.match(string)
re_match(regex, s) == re_match_at(regex, 1, s, 1, 0, <<>>)

GroupDigits == <<"1", "2", "3", "4", "5", "6", "7", "8", "9">>
TemplateEscapes ==
    [c \in {"a", "b", "f", "n", "r", "t", "v"} |->
        CASE c = "a" -> "BEL" [] c = "b" -> "BS" [] c = "f" -> "FF"
          [] c = "n" -> "LF" [] c = "r" -> "CR" [] c = "t" -> "TAB"
          [] OTHER -> "VT"]

\* matchobj.expand(template): \1..\9 are group references, \\ is a
\* backslash, \a \b \f \n \r \t \v are control characters, a backslash
\* before any other ASCII letter or at the end is an error, and a backslash
\* before anything else stays.  A reference followed by another digit names
\* a group beyond the ninth, which no pattern here has.  The outcome is a
\* str or re.error.
RECURSIVE match_expand(_, _)
match_expand(matchobj, template) ==
    IF template = <<>> THEN PyStr(<<>>)
    ELSE LET c == Head(template)
             then(prefix, rest) ==
                 Try(match_expand(matchobj, rest), LAMBDA r : PyStr(prefix \o r.s))
         IN  IF c # "\\" THEN then(<<c>>, Tail(template))
             ELSE IF Len(template) = 1 THEN Raise("re.error")
             ELSE LET d == template[2]
                      rest == Drop(template, 2)
                  IN  IF d \in Range(GroupDigits)
                      THEN LET n == CHOOSE k \in DOMAIN GroupDigits :
                                        GroupDigits[k] = d
                           IN  IF \/ n > Len(matchobj.groups)
                                  \/ (rest # <<>> /\ Head(rest) \in Range(GroupDigits) \cup {"0"})
                               THEN Raise("re.error")
                               ELSE then(matchobj.groups[n], rest)
                      ELSE IF d = "\\" THEN then(<<"\\">>, rest)
                      ELSE IF d \in DOMAIN TemplateEscapes
                      THEN then(<<TemplateEscapes[d]>>, rest)
                      ELSE IF d \in Range(LowerLetters) \cup Range(UpperLetters) \cup {"0"}
                      THEN Raise("re.error")
                      ELSE then(<<"\\", d>>, rest)

CaseMarkers ==
    { <<"L", "O", "W", "E", "R">>, <<"U", "P", "P", "E", "R">>,
      <<"M", "I", "X", "E", "D">> }

\* The loop of _fix_case over the parts between '#' characters.
RECURSIVE fix_case_loop(_, _, _, _)
fix_case_loop(parts, change, literal_hash, newparts) ==
    IF parts = <<>> THEN str_join(newparts)
    ELSE LET part == Head(parts) IN
         IF part \in CaseMarkers
         THEN fix_case_loop(Tail(parts), part, FALSE, newparts)
         ELSE LET cased == IF change = <<"U", "P", "P", "E", "R">> THEN str_upper(part)
                           ELSE IF change = <<"L", "O", "W", "E", "R">> THEN str_lower(part)
                           ELSE part
              IN  fix_case_loop(Tail(parts), change, TRUE,
                                newparts \o (IF literal_hash THEN <<(<<"#">>)>> ELSE <<>>)
                                         \o <<cased>>)

_fix_case(string) ==
    fix_case_loop(str_split(string, "#"), <<"M", "I", "X", "E", "D">>, FALSE, <<>>)

\* re.findall(r'{.*?}\[.*?\]', string): the leftmost, shortest spans.
RECURSIVE findall_dicts(_)
findall_dicts(s) ==
    LET ends(i) == {j \in (i + 1)..(Len(s) - 2) :
                        /\ s[j] = "}" /\ s[j + 1] = "["
                        /\ \A m \in (i + 1)..(j - 1) : s[m] # "LF"}
        closes(j) == {k \in (j + 2)..Len(s) :
                        /\ s[k] = "]"
                        /\ \A m \in (j + 2)..(k - 1) : s[m] # "LF"}
        starts == {i \in 1..Len(s) :
                        /\ s[i] = "{"
                        /\ \E j \in ends(i) : closes(j) # {}}
    IN  IF starts = {} THEN <<>>
        ELSE LET i == CHOOSE a \in starts : \A b \in starts : a <= b
                 js == {j \in ends(i) : closes(j) # {}}
                 j == CHOOSE a \in js : \A b \in js : a <= b
                 k == CHOOSE a \in closes(j) : \A b \in closes(j) : a <= b
             IN  <<SubSeq(s, i, k)>> \o findall_dicts(Drop(s, k))

\* eval(d) of a span {'key':'value'}['key2'] written with single quotes and
\* one entry: the value, or KeyError.  Any other text is Python source that
\* eval() runs as it stands; its outcome is not a value of this model.
eval(d) ==
    LET q == str_split(d, "'")
    IN  IF /\ Len(q) = 7
           /\ q[1] = <<"{">>
           /\ q[3] \in { <<":">>, <<":", " ">> }
           /\ q[5] = <<"}", "[">>
           /\ q[7] = <<"]">>
        THEN IF q[2] = q[6] THEN PyStr(q[4]) ELSE Raise("KeyError")
        ELSE Raise("eval")

RECURSIVE evaluate_dict_loop(_, _)
evaluate_dict_loop(dicts, string) ==
    IF dicts = <<>> THEN PyStr(string)
    ELSE Try(eval(Head(dicts)),
             LAMBDA value : evaluate_dict_loop(Tail(dicts),
                                str_replace(string, Head(dicts), value.s)))

_evaluate_dict(string) == evaluate_dict_loop(findall_dicts(string), string)

\* The three steps applied to a replacement string.
expand_str(matchobj, replacement) ==
    Try(match_expand(matchobj, replacement),
        LAMBDA result : _evaluate_dict(_fix_case(result.s)))

\* A tuple item: the three steps, then matchobj.expand() once more.
expand_tuple_item(matchobj, item) ==
    IF IsStr(item)
    THEN Try(expand_str(matchobj, item.s),
             LAMBDA result : match_expand(matchobj, result.s))
    ELSE item

\* The loop over the replacements (tupled = FALSE) and the loop over the
\* items of a tuple replacement (tupled = TRUE).
RECURSIVE expand_each(_, _, _)
expand_one(matchobj, item, tupled) ==
    IF tupled THEN expand_tuple_item(matchobj, item)
    ELSE IF IsStr(item) THEN expand_str(matchobj, item.s)
    ELSE IF IsTuple(item)
    THEN Try(expand_each(matchobj, item.items, TRUE), LAMBDA t : PyTuple(t.items))
    ELSE item

expand_each(matchobj, items, tupled) ==
    IF items = <<>> THEN PyList(<<>>)
    ELSE Try(expand_one(matchobj, Head(items), tupled),
             LAMBDA result :
                Try(expand_each(matchobj, Tail(items), tupled),
                    LAMBDA rest : PyList(<<result>> \o rest.items)))

expand_matched(matchobj, replacements) ==
    IF matchobj = None THEN PyList(<<>>)
    ELSE expand_each(matchobj,
                     IF IsList(replacements) THEN replacements.items
                     ELSE <<replacements>>,
                     FALSE)

\* TranslatorByRegex.expand: a list of results, empty when there is no match.
TranslatorByRegex_expand(regex, string, replacements) ==
    expand_matched(re_match(regex, string.s), replacements)

(***************************************************************************)
(* The translator objects.  TAG is the class attribute the composition     *)
(* methods dispatch on.                                                    *)
(***************************************************************************)
NullTranslator == [TAG |-> "NULL"]
SelfTranslator == [TAG |-> "SELF"]

\* TranslatorBySequence.__init__: the argument list is stored as given.
TranslatorBySequence(args) == [TAG |-> "SEQUENCE", sequence |-> args]

\* TranslatorByDict.__init__: the mapping and the optional path translator.
TranslatorByDict(arg, path_translator) ==
    [TAG |-> "DICT", dict |-> arg, path_translator |-> path_translator]

\* TranslatorByRegex.__init__: a rule is (pattern, replacement) with the
\* pattern a str or already compiled, or (pattern, flags, replacement).  A
\* str pattern is compiled between "^" and "$"; a compiled one is kept.
compile_rule(items) ==
    IF Len(items) = 2
    THEN IF IsStr(items[1])
         THEN <<re_compile(<<"^">> \o items[1].s \o <<"$">>, {}), items[2]>>
         ELSE items
    ELSE <<re_compile(<<"^">> \o items[1].s \o <<"$">>, items[2]), items[3]>>

TranslatorByRegex(tuples) ==
    [TAG |-> "REGEX", tuples |-> [i \in 1..Len(tuples) |-> compile_rule(tuples[i])]]

(***************************************************************************)
(* Queries: all() and first().  all() returns a Python value (a list, or   *)
(* for SelfTranslator the argument itself) or a raised exception; first()  *)
(* returns a value, None, or a raised exception.                           *)
(***************************************************************************)
RECURSIVE all(_, _, _), first(_, _, _)

\* The items of a tuple value left as they are stored.
dict_expand_items_stored(items, key) == items

\* TranslatorByDict.expand(results, key)
RECURSIVE dict_expand_items(_, _)
dict_expand_items(items, key) ==
    IF items = <<>> THEN <<>>
    ELSE LET item == Head(items)
         IN  <<IF IsStr(item) THEN PyStr(str_replace(item.s, <<"\\", "1">>, key.s))
               ELSE item>> \o dict_expand_items(Tail(items), key)

TranslatorByDict_expand(results, key) ==
    LET list == IF IsList(results) THEN results.items ELSE <<results>>
    IN  [i \in 1..Len(list) |->
            IF IsStr(list[i])
            THEN PyStr(str_replace(list[i].s, <<"\\", "1">>, key.s))
            ELSE IF IsTuple(list[i])
            THEN PyTuple(dict_expand_items(list[i].items, key))
            ELSE list[i]]

\* A dict_keys that looks the strings up as they are.
dict_keys_raw(self, strings) == AsList(strings)

\* "keys = strings" or "keys = self.path_translator.all(strings)"
dict_keys(self, strings) ==
    IF self.path_translator = None THEN AsList(strings)
    ELSE all(self.path_translator, AsList(strings), FALSE)

RECURSIVE dict_all_loop(_, _, _)
dict_all_loop(self, keys, results) ==
    IF keys = <<>> THEN PyList(results)
    ELSE LET key == Head(keys)
         IN  IF key \in DOMAIN self.dict
             THEN dict_all_loop(self, Tail(keys),
                                Extend(results,
                                       TranslatorByDict_expand(self.dict[key], key)))
             ELSE dict_all_loop(self, Tail(keys), results)

TranslatorByDict_all(self, strings, strings_first) ==
    Try(dict_keys(self, strings), LAMBDA keys : dict_all_loop(self, Iter(keys), <<>>))

\* expanded[0]
Item0(expanded) == IF expanded = <<>> THEN Raise("IndexError") ELSE expanded[1]

RECURSIVE dict_first_loop(_, _)
dict_first_loop(self, keys) ==
    IF keys = <<>> THEN None
    ELSE IF Head(keys) \in DOMAIN self.dict
    THEN Item0(TranslatorByDict_expand(self.dict[Head(keys)], Head(keys)))
    ELSE dict_first_loop(self, Tail(keys))

TranslatorByDict_first(self, strings, strings_first) ==
    Try(dict_keys(self, strings), LAMBDA keys : dict_first_loop(self, Iter(keys)))

\* The loops of TranslatorByRegex.all: pairs is the order in which the
\* (rule, string) pairs are tried.
RECURSIVE regex_all_loop(_, _, _)
regex_all_loop(self, pairs, results) ==
    IF pairs = <<>> THEN PyList(results)
    ELSE Try(TranslatorByRegex_expand(self.tuples[Head(pairs)[1]][1], Head(pairs)[2],
                                      self.tuples[Head(pairs)[1]][2]),
             LAMBDA expanded :
                regex_all_loop(self, Tail(pairs), Extend(results, expanded.items)))

RECURSIVE regex_first_loop(_, _)
regex_first_loop(self, pairs) ==
    IF pairs = <<>> THEN None
    ELSE Try(TranslatorByRegex_expand(self.tuples[Head(pairs)[1]][1], Head(pairs)[2],
                                      self.tuples[Head(pairs)[1]][2]),
             LAMBDA expanded :
                IF expanded.items # <<>> THEN expanded.items[1]
                ELSE regex_first_loop(self, Tail(pairs)))

\* The nested loops over n outer and m inner indices, as a sequence of
\* <<outer, inner>> in the order the loops visit them.
NestedLoop(n, m) ==
    [k \in 1..(n * m) |-> <<((k - 1) \div m) + 1, ((k - 1) % m) + 1>>]

\* A regex_pairs that takes the rules as the outer loop whatever
\* strings_first is.
regex_pairs_rules_outer(self, strings, strings_first) ==
    [k \in 1..(Len(self.tuples) * Len(AsList(strings).items)) |->
        <<NestedLoop(Len(self.tuples), Len(AsList(strings).items))[k][1],
          AsList(strings).items[
              NestedLoop(Len(self.tuples), Len(AsList(strings).items))[k][2]]>>]

\* <<rule index, string>> in the order of the chosen traversal.
regex_pairs(self, strings, strings_first) ==
    LET list == AsList(strings).items
        n == Len(self.tuples)
        m == Len(list)
    IN  IF strings_first
        THEN [k \in 1..(m * n) |->
                <<NestedLoop(m, n)[k][2], list[NestedLoop(m, n)[k][1]]>>]
        ELSE [k \in 1..(n * m) |->
                <<NestedLoop(n, m)[k][1], list[NestedLoop(n, m)[k][2]]>>]

TranslatorByRegex_all(self, strings, strings_first) ==
    regex_all_loop(self, regex_pairs(self, strings, strings_first), <<>>)

TranslatorByRegex_first(self, strings, strings_first) ==
    regex_first_loop(self, regex_pairs(self, strings, strings_first))

\* The loops of TranslatorBySequence.all: calls is the order of
\* <<child index, argument>> in which the children are asked.
RECURSIVE sequence_all_loop(_, _, _)
sequence_all_loop(self, calls, results) ==
    IF calls = <<>> THEN PyList(results)
    ELSE Try(all(self.sequence[Head(calls)[1]], Head(calls)[2], FALSE),
             LAMBDA partial_results :
                sequence_all_loop(self, Tail(calls),
                                  Extend(results, Iter(partial_results))))

\* "if result is not None: return result", else the rest of the loop.
IfNone(result, F(_)) == IF result # None THEN result ELSE F(result)

RECURSIVE sequence_first_loop(_, _)
sequence_first_loop(self, calls) ==
    IF calls = <<>> THEN None
    ELSE IfNone(first(self.sequence[Head(calls)[1]], Head(calls)[2], FALSE),
                LAMBDA result : sequence_first_loop(self, Tail(calls)))

\* strings_first: each string on its own to every child; otherwise the
\* whole list to each child in turn.
sequence_calls(self, strings, strings_first) ==
    LET list == AsList(strings).items
        n == Len(self.sequence)
        m == Len(list)
    IN  IF strings_first
        THEN [k \in 1..(m * n) |->
                <<NestedLoop(m, n)[k][2], list[NestedLoop(m, n)[k][1]]>>]
        ELSE [k \in 1..n |-> <<k, AsList(strings)>>]

TranslatorBySequence_all(self, strings, strings_first) ==
    sequence_all_loop(self, sequence_calls(self, strings, strings_first), <<>>)

\* A TranslatorBySequence.first that asks the children in reverse order.
TranslatorBySequence_first_reversed(self, strings, strings_first) ==
    sequence_first_loop(
        [sequence |-> [i \in 1..Len(self.sequence) |->
                          self.sequence[Len(self.sequence) + 1 - i]]],
        sequence_calls(self, strings, strings_first))

TranslatorBySequence_first(self, strings, strings_first) ==
    sequence_first_loop(self, sequence_calls(self, strings, strings_first))

NullTranslator_all(self, strings, strings_first) == PyList(<<>>)

NullTranslator_first(self, strings, strings_first) == None

SelfTranslator_all(self, strings, strings_first) == strings

\* A SelfTranslator.first that returns a bare string whole.
SelfTranslator_first_whole(self, strings, strings_first) ==
    IF IsStr(strings) THEN strings
    ELSE IF Iter(strings) = <<>> THEN Raise("IndexError") ELSE Iter(strings)[1]

\* strings[0]: the first item of a list, the first character of a str.
SelfTranslator_first(self, strings, strings_first) ==
    IF Iter(strings) = <<>> THEN Raise("IndexError") ELSE Iter(strings)[1]

all(self, strings, strings_first) ==
    CASE self.TAG = "SEQUENCE" -> TranslatorBySequence_all(self, strings, strings_first)
      [] self.TAG = "DICT" -> TranslatorByDict_all(self, strings, strings_first)
      [] self.TAG = "REGEX" -> TranslatorByRegex_all(self, strings, strings_first)
      [] self.TAG = "NULL" -> NullTranslator_all(self, strings, strings_first)
      [] self.TAG = "SELF" -> SelfTranslator_all(self, strings, strings_first)
      [] OTHER -> self

first(self, strings, strings_first) ==
    CASE self.TAG = "SEQUENCE" -> TranslatorBySequence_first(self, strings, strings_first)
      [] self.TAG = "DICT" -> TranslatorByDict_first(self, strings, strings_first)
      [] self.TAG = "REGEX" -> TranslatorByRegex_first(self, strings, strings_first)
      [] self.TAG = "NULL" -> NullTranslator_first(self, strings, strings_first)
      [] self.TAG = "SELF" -> SelfTranslator_first(self, strings, strings_first)
      [] OTHER -> self

\* SelfTranslator.keys() and values(): "return []".
SelfTranslator_keys(self) == PyList(<<>>)

SelfTranslator_values(self) == PyList(<<>>)

\* TranslatorByRegex.keys() and values(): the compiled patterns and the
\* replacements, in rule order.
TranslatorByRegex_keys(self) == [i \in 1..Len(self.tuples) |-> self.tuples[i][1]]

TranslatorByRegex_values(self) == [i \in 1..Len(self.tuples) |-> self.tuples[i][2]]

\* The order of two str values: by the first character that differs, a
\* proper prefix first.  Python compares code points; the characters of the
\* keys here are digits, upper-case letters and lower-case letters, which
\* stand in that order.
RECURSIVE str_lt(_, _)
str_lt(a, b) ==
    LET ord(c) == CHOOSE i \in 1..62 :
                      (<<"0">> \o GroupDigits \o UpperLetters \o LowerLetters)[i] = c
    IN  IF b = <<>> THEN FALSE
        ELSE IF a = <<>> THEN TRUE
        ELSE IF Head(a) = Head(b) THEN str_lt(Tail(a), Tail(b))
        ELSE ord(Head(a)) < ord(Head(b))

\* "keylist.sort()" of a list of distinct str keys.
RECURSIVE sorted(_)
sorted(keyset) ==
    IF keyset = {} THEN <<>>
    ELSE LET least == CHOOSE k \in keyset : \A j \in keyset \ {k} : str_lt(k.s, j.s)
         IN  <<least>> \o sorted(keyset \ {least})

RECURSIVE keys(_), values(_)

\* TranslatorBySequence.keys() and values(): one entry per child, the
\* child's own keys() or values().
TranslatorBySequence_keys(self) ==
    PyList([i \in 1..Len(self.sequence) |-> keys(self.sequence[i])])

TranslatorBySequence_values(self) ==
    PyList([i \in 1..Len(self.sequence) |-> values(self.sequence[i])])

\* TranslatorByDict.keys(): "keylist = list(self.dict.keys()); keylist.sort()".
TranslatorByDict_keys(self) == PyList(sorted(DOMAIN self.dict))

\* A TranslatorByDict.values() that takes the keys last to first.
TranslatorByDict_values_reversed(self) ==
    PyList([i \in 1..Len(TranslatorByDict_keys(self).items) |->
               self.dict[TranslatorByDict_keys(self).items[
                   Len(TranslatorByDict_keys(self).items) + 1 - i]]])

\* TranslatorByDict.values(): "[self.dict[k] for k in keylist]".
TranslatorByDict_values(self) ==
    PyList([i \in 1..Len(TranslatorByDict_keys(self).items) |->
               self.dict[TranslatorByDict_keys(self).items[i]]])

\* NullTranslator.keys() and values(): "return []".
NullTranslator_keys(self) == PyList(<<>>)

NullTranslator_values(self) == PyList(<<>>)

keys(self) ==
    CASE self.TAG = "SEQUENCE" -> TranslatorBySequence_keys(self)
      [] self.TAG = "DICT" -> TranslatorByDict_keys(self)
      [] self.TAG = "REGEX" -> PyList(TranslatorByRegex_keys(self))
      [] self.TAG = "NULL" -> NullTranslator_keys(self)
      [] self.TAG = "SELF" -> SelfTranslator_keys(self)
      [] OTHER -> self

values(self) ==
    CASE self.TAG = "SEQUENCE" -> TranslatorBySequence_values(self)
      [] self.TAG = "DICT" -> TranslatorByDict_values(self)
      [] self.TAG = "REGEX" -> PyList(TranslatorByRegex_values(self))
      [] self.TAG = "NULL" -> NullTranslator_values(self)
      [] self.TAG = "SELF" -> SelfTranslator_values(self)
      [] OTHER -> self

(***************************************************************************)
(* Composition: prepend() and append() of the five classes.  The two       *)
(* dispatchers stand for Python's method lookup on the receiver's class.   *)
(* self.sequence[0] and self.sequence[-1] raise IndexError on an empty     *)
(* list.                                                                   *)
(***************************************************************************)
RECURSIVE prepend(_, _), append(_, _)

\* A TranslatorBySequence.prepend that joins two sequences in the wrong order.
TranslatorBySequence_prepend_swapped(self, translator) ==
    IF translator.TAG = "NULL" THEN translator
    ELSE IF translator.TAG = self.TAG
    THEN TranslatorBySequence(self.sequence \o translator.sequence)
    ELSE TranslatorBySequence(<<translator, self>>)

TranslatorBySequence_prepend(self, translator) ==
    IF translator.TAG = "NULL" THEN translator
    ELSE IF translator.TAG = self.TAG
    THEN TranslatorBySequence(translator.sequence \o self.sequence)
    ELSE IF self.sequence = <<>> THEN Raise("IndexError")
    ELSE IF translator.TAG = Head(self.sequence).TAG
    THEN LET new_translator == prepend(Head(self.sequence), translator)
         IN  IF new_translator.TAG = translator.TAG
             THEN TranslatorBySequence(<<new_translator>> \o Tail(self.sequence))
             ELSE TranslatorBySequence(<<translator, self>>)
    ELSE TranslatorBySequence(<<translator, self>>)

\* A TranslatorBySequence.append that never merges into its last child.
TranslatorBySequence_append_nosplice(self, translator) ==
    IF translator.TAG = "NULL" THEN translator
    ELSE IF translator.TAG = "SEQUENCE"
    THEN TranslatorBySequence(self.sequence \o translator.sequence)
    ELSE TranslatorBySequence(<<self, translator>>)

\* A TranslatorBySequence.append that merges into its last child and then
\* leaves the merged translator out of the new list.
TranslatorBySequence_append_dropmerged(self, translator) ==
    IF translator.TAG = "NULL" THEN translator
    ELSE IF translator.TAG = "SEQUENCE"
    THEN TranslatorBySequence(self.sequence \o translator.sequence)
    ELSE IF self.sequence = <<>> THEN Raise("IndexError")
    ELSE IF translator.TAG = self.sequence[Len(self.sequence)].TAG
            /\ append(self.sequence[Len(self.sequence)], translator).TAG = translator.TAG
    THEN TranslatorBySequence(SubSeq(self.sequence, 1, Len(self.sequence) - 1))
    ELSE TranslatorBySequence(<<self, translator>>)

TranslatorBySequence_append(self, translator) ==
    IF translator.TAG = "NULL" THEN translator
    ELSE IF translator.TAG = "SEQUENCE"
    THEN TranslatorBySequence(self.sequence \o translator.sequence)
    ELSE IF self.sequence = <<>> THEN Raise("IndexError")
    ELSE LET n == Len(self.sequence)
             last == self.sequence[n]
         IN  IF translator.TAG = last.TAG
             THEN LET new_translator == append(last, translator)
                  IN  IF new_translator.TAG = translator.TAG
                      THEN TranslatorBySequence(
                               SubSeq(self.sequence, 1, n - 1) \o <<new_translator>>)
                      ELSE TranslatorBySequence(<<self, translator>>)
             ELSE TranslatorBySequence(<<self, translator>>)

\* A TranslatorByDict.prepend without the test for the NullTranslator.
TranslatorByDict_prepend_nonull(self, translator) ==
    IF translator.TAG = "SEQUENCE" THEN append(translator, self)
    ELSE TranslatorBySequence(<<translator, self>>)

TranslatorByDict_prepend(self, translator) ==
    IF translator.TAG = "NULL" THEN translator
    ELSE IF translator.TAG = "SEQUENCE" THEN append(translator, self)
    ELSE TranslatorBySequence(<<translator, self>>)

\* A TranslatorByDict.append that puts itself in front of the children of a
\* sequence instead of asking the sequence to prepend it.
TranslatorByDict_append_flat(self, translator) ==
    IF translator.TAG = "NULL" THEN translator
    ELSE IF translator.TAG = "SEQUENCE"
    THEN TranslatorBySequence(<<self>> \o translator.sequence)
    ELSE TranslatorBySequence(<<self, translator>>)

\* A TranslatorByDict.append that, given a sequence, goes behind its
\* children ("translator.append(self)").
TranslatorByDict_append_behind(self, translator) ==
    IF translator.TAG = "NULL" THEN translator
    ELSE IF translator.TAG = "SEQUENCE" THEN append(translator, self)
    ELSE TranslatorBySequence(<<self, translator>>)

TranslatorByDict_append(self, translator) ==
    IF translator.TAG = "NULL" THEN translator
    ELSE IF translator.TAG = "SEQUENCE" THEN prepend(translator, self)
    ELSE TranslatorBySequence(<<self, translator>>)

\* A TranslatorByRegex.prepend whose last return has the two in append order.
TranslatorByRegex_prepend_order(self, translator) ==
    IF translator.TAG = "NULL" THEN translator
    ELSE IF translator.TAG = self.TAG
    THEN TranslatorByRegex(translator.tuples \o self.tuples)
    ELSE IF translator.TAG = "SEQUENCE" THEN append(translator, self)
    ELSE TranslatorBySequence(<<self, translator>>)

TranslatorByRegex_prepend(self, translator) ==
    IF translator.TAG = "NULL" THEN translator
    ELSE IF translator.TAG = self.TAG
    THEN TranslatorByRegex(translator.tuples \o self.tuples)
    ELSE IF translator.TAG = "SEQUENCE" THEN append(translator, self)
    ELSE TranslatorBySequence(<<translator, self>>)

\* A TranslatorByRegex.append that puts the argument's rules first.
TranslatorByRegex_append_swapped(self, translator) ==
    IF translator.TAG = "NULL" THEN translator
    ELSE IF translator.TAG = self.TAG
    THEN TranslatorByRegex(translator.tuples \o self.tuples)
    ELSE IF translator.TAG = "SEQUENCE" THEN prepend(translator, self)
    ELSE TranslatorBySequence(<<self, translator>>)

\* A TranslatorByRegex.append that keeps only the receiver's rules when
\* it merges.
TranslatorByRegex_append_selfonly(self, translator) ==
    IF translator.TAG = "NULL" THEN translator
    ELSE IF translator.TAG = self.TAG
    THEN TranslatorByRegex(self.tuples)
    ELSE IF translator.TAG = "SEQUENCE" THEN prepend(translator, self)
    ELSE TranslatorBySequence(<<self, translator>>)

TranslatorByRegex_append(self, translator) ==
    IF translator.TAG = "NULL" THEN translator
    ELSE IF translator.TAG = self.TAG
    THEN TranslatorByRegex(self.tuples \o translator.tuples)
    ELSE IF translator.TAG = "SEQUENCE" THEN prepend(translator, self)
    ELSE TranslatorBySequence(<<self, translator>>)

\* A NullTranslator.prepend and a NullTranslator.append that return self.
NullTranslator_prepend_self(self, translator) == self

NullTranslator_append_self(self, translator) == self

NullTranslator_prepend(self, translator) == translator

NullTranslator_append(self, translator) == translator

\* A SelfTranslator.prepend that lets the NullTranslator win.
SelfTranslator_prepend_nullwins(self, translator) ==
    IF translator.TAG = self.TAG THEN self
    ELSE IF translator.TAG = "NULL" THEN translator
    ELSE IF translator.TAG = "SEQUENCE" THEN append(translator, self)
    ELSE TranslatorBySequence(<<translator, self>>)

SelfTranslator_prepend(self, translator) ==
    IF translator.TAG = self.TAG THEN self
    ELSE IF translator.TAG = "NULL" THEN self
    ELSE IF translator.TAG = "SEQUENCE" THEN append(translator, self)
    ELSE TranslatorBySequence(<<translator, self>>)

SelfTranslator_append(self, translator) ==
    IF translator.TAG = self.TAG THEN self
    ELSE IF translator.TAG = "NULL" THEN self
    ELSE IF translator.TAG = "SEQUENCE" THEN prepend(translator, self)
    ELSE TranslatorBySequence(<<self, translator>>)

prepend(self, translator) ==
    CASE self.TAG = "SEQUENCE" -> TranslatorBySequence_prepend(self, translator)
      [] self.TAG = "DICT" -> TranslatorByDict_prepend(self, translator)
      [] self.TAG = "REGEX" -> TranslatorByRegex_prepend(self, translator)
      [] self.TAG = "NULL" -> NullTranslator_prepend(self, translator)
      [] self.TAG = "SELF" -> SelfTranslator_prepend(self, translator)
      [] OTHER -> self

append(self, translator) ==
    CASE self.TAG = "SEQUENCE" -> TranslatorBySequence_append(self, translator)
      [] self.TAG = "DICT" -> TranslatorByDict_append(self, translator)
      [] self.TAG = "REGEX" -> TranslatorByRegex_append(self, translator)
      [] self.TAG = "NULL" -> NullTranslator_append(self, translator)
      [] self.TAG = "SELF" -> SelfTranslator_append(self, translator)
      [] OTHER -> self

(***************************************************************************)
(* The same composition methods over the objects themselves.  A heap is a  *)
(* sequence of cells and a reference is an index into it.  A cell is a     *)
(* Python list, a Python dict, or a translator object whose attribute      *)
(* holds a reference to its list or dict.  An operation returns the heap   *)
(* it leaves and the reference it returns; ref = 0 stands for a raised     *)
(* IndexError.  The list built by "+" is a new list; the operands of "+",  *)
(* a slice and a list display are read, never written.                     *)
(***************************************************************************)
ListCell(items) == [k |-> "list", items |-> items]
DictCell(map) == [k |-> "dict", map |-> map]

Returned(h, ref) == [heap |-> h, ref |-> ref]
Alloc(h, cell) == Returned(Append(h, cell), Len(h) + 1)

\* TranslatorBySequence(args): "self.sequence = args" keeps the list passed in.
new_TranslatorBySequence(h, args) ==
    Alloc(h, [k |-> "obj", TAG |-> "SEQUENCE", sequence |-> args])

\* TranslatorBySequence(<a new list of these items>)
new_sequence_of(h, items) ==
    new_TranslatorBySequence(Append(h, ListCell(items)), Len(h) + 1)

\* TranslatorByRegex(tuples): the rules go into the new list compiled_tuples.
new_TranslatorByRegex(h, tuples) ==
    Alloc(Append(h, ListCell([i \in 1..Len(tuples) |-> compile_rule(tuples[i])])),
          [k |-> "obj", TAG |-> "REGEX", tuples |-> Len(h) + 1])

\* TranslatorByDict(arg): "self.dict = arg" keeps the dict passed in.
new_TranslatorByDict(h, arg) ==
    Alloc(h, [k |-> "obj", TAG |-> "DICT", dict |-> arg, path_translator |-> None])

\* self.sequence and self.tuples of the object at a reference.
sequence_of(h, ref) == h[h[ref].sequence].items
tuples_of(h, ref) == h[h[ref].tuples].items

RECURSIVE obj_prepend(_, _, _), obj_append(_, _, _)

\* The end of TranslatorBySequence.prepend, after the merge of the first
\* child with the translator returned r.
sequence_prepend_merged(r, self, translator) ==
    IF r.heap[r.ref].TAG = r.heap[translator].TAG
    THEN new_sequence_of(r.heap, <<r.ref>> \o Tail(sequence_of(r.heap, self)))
    ELSE new_sequence_of(r.heap, <<translator, self>>)

obj_TranslatorBySequence_prepend(h, self, translator) ==
    IF h[translator].TAG = "NULL" THEN Returned(h, translator)
    ELSE IF h[translator].TAG = h[self].TAG
    THEN new_sequence_of(h, sequence_of(h, translator) \o sequence_of(h, self))
    ELSE IF sequence_of(h, self) = <<>> THEN Returned(h, 0)
    ELSE IF h[translator].TAG = h[Head(sequence_of(h, self))].TAG
    THEN sequence_prepend_merged(
             obj_prepend(h, Head(sequence_of(h, self)), translator), self, translator)
    ELSE new_sequence_of(h, <<translator, self>>)

\* The end of TranslatorBySequence.append, after the merge of the last child
\* with the translator returned r.
sequence_append_merged(r, self, translator) ==
    IF r.heap[r.ref].TAG = r.heap[translator].TAG
    THEN new_sequence_of(r.heap,
             SubSeq(sequence_of(r.heap, self), 1, Len(sequence_of(r.heap, self)) - 1)
                 \o <<r.ref>>)
    ELSE new_sequence_of(r.heap, <<self, translator>>)

\* A TranslatorBySequence.append that joins two sequences with
\* "self.sequence += translator.sequence" and returns self.
obj_TranslatorBySequence_append_inplace(h, self, translator) ==
    IF h[translator].TAG = "NULL" THEN Returned(h, translator)
    ELSE IF h[translator].TAG = "SEQUENCE"
    THEN Returned([h EXCEPT ![h[self].sequence] =
                      ListCell(sequence_of(h, self) \o sequence_of(h, translator))],
                  self)
    ELSE IF sequence_of(h, self) = <<>> THEN Returned(h, 0)
    ELSE IF h[translator].TAG = h[sequence_of(h, self)[Len(sequence_of(h, self))]].TAG
    THEN sequence_append_merged(
             obj_append(h, sequence_of(h, self)[Len(sequence_of(h, self))], translator),
             self, translator)
    ELSE new_sequence_of(h, <<self, translator>>)

obj_TranslatorBySequence_append(h, self, translator) ==
    IF h[translator].TAG = "NULL" THEN Returned(h, translator)
    ELSE IF h[translator].TAG = "SEQUENCE"
    THEN new_sequence_of(h, sequence_of(h, self) \o sequence_of(h, translator))
    ELSE IF sequence_of(h, self) = <<>> THEN Returned(h, 0)
    ELSE IF h[translator].TAG = h[sequence_of(h, self)[Len(sequence_of(h, self))]].TAG
    THEN sequence_append_merged(
             obj_append(h, sequence_of(h, self)[Len(sequence_of(h, self))], translator),
             self, translator)
    ELSE new_sequence_of(h, <<self, translator>>)

obj_TranslatorByDict_prepend(h, self, translator) ==
    IF h[translator].TAG = "NULL" THEN Returned(h, translator)
    ELSE IF h[translator].TAG = "SEQUENCE" THEN obj_append(h, translator, self)
    ELSE new_sequence_of(h, <<translator, self>>)

obj_TranslatorByDict_append(h, self, translator) ==
    IF h[translator].TAG = "NULL" THEN Returned(h, translator)
    ELSE IF h[translator].TAG = "SEQUENCE" THEN obj_prepend(h, translator, self)
    ELSE new_sequence_of(h, <<self, translator>>)

obj_TranslatorByRegex_prepend(h, self, translator) ==
    IF h[translator].TAG = "NULL" THEN Returned(h, translator)
    ELSE IF h[translator].TAG = h[self].TAG
    THEN new_TranslatorByRegex(h, tuples_of(h, translator) \o tuples_of(h, self))
    ELSE IF h[translator].TAG = "SEQUENCE" THEN obj_append(h, translator, self)
    ELSE new_sequence_of(h, <<translator, self>>)

obj_TranslatorByRegex_append(h, self, translator) ==
    IF h[translator].TAG = "NULL" THEN Returned(h, translator)
    ELSE IF h[translator].TAG = h[self].TAG
    THEN new_TranslatorByRegex(h, tuples_of(h, self) \o tuples_of(h, translator))
    ELSE IF h[translator].TAG = "SEQUENCE" THEN obj_prepend(h, translator, self)
    ELSE new_sequence_of(h, <<self, translator>>)

obj_NullTranslator_prepend(h, self, translator) == Returned(h, translator)

obj_NullTranslator_append(h, self, translator) == Returned(h, translator)

obj_SelfTranslator_prepend(h, self, translator) ==
    IF h[translator].TAG = h[self].TAG THEN Returned(h, self)
    ELSE IF h[translator].TAG = "NULL" THEN Returned(h, self)
    ELSE IF h[translator].TAG = "SEQUENCE" THEN obj_append(h, translator, self)
    ELSE new_sequence_of(h, <<translator, self>>)

obj_SelfTranslator_append(h, self, translator) ==
    IF h[translator].TAG = h[self].TAG THEN Returned(h, self)
    ELSE IF h[translator].TAG = "NULL" THEN Returned(h, self)
    ELSE IF h[translator].TAG = "SEQUENCE" THEN obj_prepend(h, translator, self)
    ELSE new_sequence_of(h, <<self, translator>>)

obj_prepend(h, self, translator) ==
    CASE h[self].TAG = "SEQUENCE" -> obj_TranslatorBySequence_prepend(h, self, translator)
      [] h[self].TAG = "DICT" -> obj_TranslatorByDict_prepend(h, self, translator)
      [] h[self].TAG = "REGEX" -> obj_TranslatorByRegex_prepend(h, self, translator)
      [] h[self].TAG = "NULL" -> obj_NullTranslator_prepend(h, self, translator)
      [] h[self].TAG = "SELF" -> obj_SelfTranslator_prepend(h, self, translator)
      [] OTHER -> Returned(h, 0)

obj_append(h, self, translator) ==
    CASE h[self].TAG = "SEQUENCE" -> obj_TranslatorBySequence_append(h, self, translator)
      [] h[self].TAG = "DICT" -> obj_TranslatorByDict_append(h, self, translator)
      [] h[self].TAG = "REGEX" -> obj_TranslatorByRegex_append(h, self, translator)
      [] h[self].TAG = "NULL" -> obj_NullTranslator_append(h, self, translator)
      [] h[self].TAG = "SELF" -> obj_SelfTranslator_append(h, self, translator)
      [] OTHER -> Returned(h, 0)

\* Translator.__add__ and Translator.__iadd__: both "return self.append(other)".
Translator___add___prepend(h, self, other) == obj_prepend(h, self, other)

Translator___add__(h, self, other) == obj_append(h, self, other)

Translator___iadd__(h, self, other) == obj_append(h, self, other)

\* The translator an object is, read through its references: what its
\* queries answer from.
RECURSIVE translator_at(_, _)
translator_at(h, ref) ==
    CASE h[ref].TAG = "SEQUENCE" ->
            TranslatorBySequence([i \in 1..Len(sequence_of(h, ref)) |->
                                     translator_at(h, sequence_of(h, ref)[i])])
      [] h[ref].TAG = "REGEX" -> [TAG |-> "REGEX", tuples |-> tuples_of(h, ref)]
      [] h[ref].TAG = "DICT" -> TranslatorByDict(h[h[ref].dict].map, h[ref].path_translator)
      [] h[ref].TAG = "NULL" -> NullTranslator
      [] OTHER -> SelfTranslator

(***************************************************************************)
(* The translators and inputs the model draws from.                        *)
(***************************************************************************)
S(chars) == PyStr(chars)

\* {'a': '1'}
D1 == TranslatorByDict((S(<<"a">>) :> S(<<"1">>)), None)
\* {'a': '3', 'b': ['2', '\1x']}
D2 == TranslatorByDict((S(<<"a">>) :> S(<<"3">>)) @@
                       (S(<<"b">>) :> PyList(<<S(<<"2">>), S(<<"\\", "1", "x">>)>>)),
                       None)
\* [('a', '1')]
R1 == TranslatorByRegex(<< <<S(<<"a">>), S(<<"1">>)>> >>)
\* [('(.)', r'\1\1'), ('b', '2')]
R2 == TranslatorByRegex(<< <<S(<<"(", ".", ")">>), S(<<"\\", "1", "\\", "1">>)>>,
                           <<S(<<"b">>), S(<<"2">>)>> >>)
\* [(re.compile('a'), '4'), ('B', re.I, ('2', 5))]
R3 == TranslatorByRegex(<< <<re_compile(<<"a">>, {}), S(<<"4">>)>>,
                           <<S(<<"B">>), {"IGNORECASE"},
                             PyTuple(<<S(<<"2">>), PyInt(5)>>)>> >>)
\* {'1': [(r'\1z\1', 5), 7]} with keys translated by R1
D3 == TranslatorByDict(
          (S(<<"1">>) :> PyList(<<PyTuple(<<S(<<"\\", "1", "z", "\\", "1">>), PyInt(5)>>),
                                  PyInt(7)>>)),
          R1)

Leaves == {NullTranslator, SelfTranslator, D1, D2, D3, R1, R2, R3}

\* The largest argument list given to TranslatorBySequence(), and the
\* longest list of strings given to a query.
MaxChildren == 2
MaxInputLen == 2

Children == {D1, R1, SelfTranslator}
SequenceArgs ==
    UNION {[1..n -> Children] : n \in 1..MaxChildren}
    \cup { <<NullTranslator>>, <<R2, NullTranslator>>,
           <<TranslatorBySequence(<<D1>>), R1>> }

InputStrings == {S(<<"a">>), S(<<"b">>)}
Inputs ==
    {PyList(l) : l \in UNION {[1..n -> InputStrings] : n \in 0..MaxInputLen}}
    \cup {PyList(<<S(<<"a", "b">>)>>), S(<<"a">>), S(<<"a", "b">>)}

(***************************************************************************)
(* The state: two operand translators A and B, the translator R that the   *)
(* last composition A.append(B) or A.prepend(B) returned, and the outcome  *)
(* q of the last query R.first(xs, sf) or R.all(xs, sf).  A caller builds  *)
(* its translators, composes them, and then queries the composite.         *)
(***************************************************************************)
VARIABLES A, B, R, op, query, xs, sf, q

\* The objects of a caller that composes translators held in variables:
\* the heap, the caller's variables (names) bound to references, and born,
\* the cells as they were when created.
VARIABLES heap, names, born

\* One call of TranslatorByRegex.expand: the rule as it was given to the
\* constructor, the subject string, the list the call returned (or the exception it
\* raised), and evals, the texts the call passed to eval().
VARIABLES rule, subject, results, evals

\* The third operand of a chain of two compositions.
VARIABLE C

\* The last statement of a caller that composes with "+", "+=" and append().
VARIABLE stmt

vars == <<A, B, R, op, query, xs, sf, q, heap, names, born,
          rule, subject, results, evals, C, stmt>>

objvars == <<heap, names, born>>

expvars == <<rule, subject, results, evals>>

NoObjects == /\ heap = <<>> /\ names = <<>> /\ born = <<>>

NoExpansion == /\ rule = None /\ subject = None /\ results = None /\ evals = <<>>


NoQuery == /\ query' = "none" /\ xs' = PyList(<<>>) /\ sf' = FALSE /\ q' = None

Init ==
    /\ A \in Leaves
    /\ B \in Leaves
    /\ R = None
    /\ op = "none"
    /\ query = "none" /\ xs = PyList(<<>>) /\ sf = FALSE /\ q = None
    /\ NoObjects /\ NoExpansion /\ stmt = None
    /\ C = NullTranslator

\* A = TranslatorBySequence(args)
ConstructA ==
    /\ op = "none"
    /\ \E args \in SequenceArgs : A' = TranslatorBySequence(args)
    /\ R' = None /\ op' = "none"
    /\ NoQuery
    /\ UNCHANGED <<B, objvars, expvars, C, stmt>>

\* B = TranslatorBySequence(args)
ConstructB ==
    /\ op = "none"
    /\ \E args \in SequenceArgs : B' = TranslatorBySequence(args)
    /\ R' = None /\ op' = "none"
    /\ NoQuery
    /\ UNCHANGED <<A, objvars, expvars, C, stmt>>

\* R = A.append(B)
DoAppend ==
    /\ R' = append(A, B)
    /\ op' = "append"
    /\ NoQuery
    /\ UNCHANGED <<A, B, objvars, expvars, C, stmt>>

\* R = A.prepend(B)
DoPrepend ==
    /\ R' = prepend(A, B)
    /\ op' = "prepend"
    /\ NoQuery
    /\ UNCHANGED <<A, B, objvars, expvars, C, stmt>>

\* q = R.first(xs, sf)
DoFirst ==
    /\ op # "none" /\ query = "none"
    /\ \E strings \in Inputs, strings_first \in BOOLEAN :
        /\ xs' = strings
        /\ sf' = strings_first
        /\ q' = first(R, strings, strings_first)
    /\ query' = "first"
    /\ UNCHANGED <<A, B, R, op, objvars, expvars, C, stmt>>

\* q = R.all(xs, sf)
DoAll ==
    /\ op # "none" /\ query = "none"
    /\ \E strings \in Inputs, strings_first \in BOOLEAN :
        /\ xs' = strings
        /\ sf' = strings_first
        /\ q' = all(R, strings, strings_first)
    /\ query' = "all"
    /\ UNCHANGED <<A, B, R, op, objvars, expvars, C, stmt>>

Next == ConstructA \/ ConstructB \/ DoAppend \/ DoPrepend \/ DoFirst \/ DoAll

Spec == Init /\ [][Next]_vars

(***************************************************************************)
(* A caller that keeps translators in variables and composes them with     *)
(* append(), prepend(), "+" and "+=".  It starts with an Exact-Match, a    *)
(* Pattern, an Empty and an Identity translator.                           *)
(***************************************************************************)
Names == {"x", "y"}

\* The most cells the heap holds.
MaxCells == 12

\* {'a': '1'} and TranslatorByDict of it, the compiled rules of [('a', '1')]
\* and the TranslatorByRegex holding them, NullTranslator(), SelfTranslator().
InitialHeap ==
    Append(Append(new_TranslatorByRegex(
                      new_TranslatorByDict(<<DictCell(D1.dict)>>, 1).heap,
                      << <<S(<<"a">>), S(<<"1">>)>> >>).heap,
                  [k |-> "obj", TAG |-> "NULL"]),
           [k |-> "obj", TAG |-> "SELF"])

InitialObjects == {2, 4, 5, 6}

NoComposition ==
    /\ A = NullTranslator /\ B = NullTranslator /\ R = None /\ op = "none"
    /\ query = "none" /\ xs = PyList(<<>>) /\ sf = FALSE /\ q = None
    /\ C = NullTranslator

ObjInit ==
    /\ heap = InitialHeap
    /\ born = InitialHeap
    /\ names \in [Names -> InitialObjects]
    /\ NoComposition /\ NoExpansion /\ stmt = None

\* The last statement, when it was "v = a + b" or "a += b": the heap it ran
\* on and the objects its operands referred to.
Statement(operator, v, self, other) ==
    [operator |-> operator, v |-> v, self |-> self, other |-> other, heap |-> heap]

\* v = <the object a call returned>, unless the call raised.
Bind(v, r) ==
    /\ r.ref # 0
    /\ Len(r.heap) <= MaxCells
    /\ heap' = r.heap
    /\ born' = born \o SubSeq(r.heap, Len(heap) + 1, Len(r.heap))
    /\ names' = [names EXCEPT ![v] = r.ref]

\* The child lists the caller builds from its variables: [a] and [a, b].
ObjArgs == {<<a>> : a \in Names} \cup {<<a, b>> : a \in Names, b \in Names}

\* v = TranslatorBySequence([a]) or v = TranslatorBySequence([a, b])
ObjConstruct ==
    /\ \E v \in Names, args \in ObjArgs :
          Bind(v, new_sequence_of(heap, [i \in 1..Len(args) |-> names[args[i]]]))
    /\ stmt' = None
    /\ UNCHANGED <<A, B, R, op, query, xs, sf, q, expvars, C>>

\* v = a.append(b)
ObjAppend ==
    /\ \E v \in Names, a \in Names, b \in Names :
          Bind(v, obj_append(heap, names[a], names[b]))
    /\ stmt' = None
    /\ UNCHANGED <<A, B, R, op, query, xs, sf, q, expvars, C>>

\* v = a.prepend(b)
ObjPrepend ==
    /\ \E v \in Names, a \in Names, b \in Names :
          Bind(v, obj_prepend(heap, names[a], names[b]))
    /\ stmt' = None
    /\ UNCHANGED <<A, B, R, op, query, xs, sf, q, expvars, C>>

\* v = a + b
ObjAdd ==
    /\ \E v \in Names, a \in Names, b \in Names :
          /\ Bind(v, Translator___add__(heap, names[a], names[b]))
          /\ stmt' = Statement("+", v, names[a], names[b])
    /\ UNCHANGED <<A, B, R, op, query, xs, sf, q, expvars, C>>

\* a += b: a is bound to what a.__iadd__(b) returns.
ObjIAdd ==
    /\ \E a \in Names, b \in Names :
          /\ Bind(a, Translator___iadd__(heap, names[a], names[b]))
          /\ stmt' = Statement("+=", a, names[a], names[b])
    /\ UNCHANGED <<A, B, R, op, query, xs, sf, q, expvars, C>>

\* v = TranslatorByDict(d), with d the dict the first translator was given.
ObjConstructDict ==
    /\ \E v \in Names : Bind(v, new_TranslatorByDict(heap, 1))
    /\ stmt' = None
    /\ UNCHANGED <<A, B, R, op, query, xs, sf, q, expvars, C>>

ObjNext ==
    ObjConstruct \/ ObjConstructDict \/ ObjAppend \/ ObjPrepend \/ ObjAdd \/ ObjIAdd

ObjSpec == ObjInit /\ [][ObjNext]_vars

(***************************************************************************)
(* A caller with three translators A, B and C that composes them in a      *)
(* chain of two append() or prepend() calls, grouped to the left,          *)
(* (A.o1(B)).o2(C), or to the right, A.o1(B.o2(C)), and then asks the      *)
(* result R.  TranslatorBySequence() is called with a list of any length,  *)
(* the empty list included.                                                *)
(***************************************************************************)
\* [], [D1, R1] and [SelfTranslator()]
ChainArgs == { <<>>, <<D1, R1>>, <<SelfTranslator>> }

\* The value of the chain; an exception raised by the inner call ends it
\* (what a call returns is a translator, with a TAG, unless it raised).
chain(grouping, o1, o2, a, b, c) ==
    LET call(o, self, translator) ==
            IF "TAG" \notin DOMAIN self \/ "TAG" \notin DOMAIN translator
            THEN IF "TAG" \notin DOMAIN self THEN self ELSE translator
            ELSE IF o = "append" THEN append(self, translator)
            ELSE prepend(self, translator)
    IN  IF grouping = "left" THEN call(o2, call(o1, a, b), c)
        ELSE call(o1, a, call(o2, b, c))

ChainInit ==
    /\ A \in {NullTranslator, SelfTranslator, D1, D2, R1}
    /\ B \in {NullTranslator, SelfTranslator, D1, D2, R1}
    /\ C \in {NullTranslator, SelfTranslator, D1, D2, R1}
    /\ R = None /\ op = <<>>
    /\ query = "none" /\ xs = PyList(<<>>) /\ sf = FALSE /\ q = None
    /\ NoObjects /\ NoExpansion /\ stmt = None

\* A, B or C = TranslatorBySequence(args)
ChainConstruct ==
    /\ R = None
    /\ \E args \in ChainArgs :
          \/ A' = TranslatorBySequence(args) /\ UNCHANGED <<B, C>>
          \/ B' = TranslatorBySequence(args) /\ UNCHANGED <<A, C>>
          \/ C' = TranslatorBySequence(args) /\ UNCHANGED <<A, B>>
    /\ UNCHANGED <<R, op, query, xs, sf, q, objvars, expvars, stmt>>

\* R = (A.o1(B)).o2(C) or R = A.o1(B.o2(C))
ChainCompose ==
    /\ R = None
    /\ \E grouping \in {"left", "right"}, o1 \in {"append", "prepend"},
          o2 \in {"append", "prepend"} :
          /\ R' = chain(grouping, o1, o2, A, B, C)
          /\ op' = <<grouping, o1, o2>>
    /\ UNCHANGED <<A, B, C, query, xs, sf, q, objvars, expvars, stmt>>

\* q = R.first(xs, sf)
ChainFirst ==
    /\ "TAG" \in DOMAIN R /\ query = "none"
    /\ \E strings \in Inputs, strings_first \in BOOLEAN :
        /\ xs' = strings
        /\ sf' = strings_first
        /\ q' = first(R, strings, strings_first)
    /\ query' = "first"
    /\ UNCHANGED <<A, B, C, R, op, objvars, expvars, stmt>>

\* q = R.all(xs, sf)
ChainAll ==
    /\ "TAG" \in DOMAIN R /\ query = "none"
    /\ \E strings \in Inputs, strings_first \in BOOLEAN :
        /\ xs' = strings
        /\ sf' = strings_first
        /\ q' = all(R, strings, strings_first)
    /\ query' = "all"
    /\ UNCHANGED <<A, B, C, R, op, objvars, expvars, stmt>>

\* q = R.keys()
ChainKeys ==
    /\ "TAG" \in DOMAIN R /\ query = "none"
    /\ q' = keys(R)
    /\ query' = "keys"
    /\ UNCHANGED <<A, B, C, R, op, xs, sf, objvars, expvars, stmt>>

\* q = R.values()
ChainValues ==
    /\ "TAG" \in DOMAIN R /\ query = "none"
    /\ q' = values(R)
    /\ query' = "values"
    /\ UNCHANGED <<A, B, C, R, op, xs, sf, objvars, expvars, stmt>>

ChainNext ==
    ChainConstruct \/ ChainCompose \/ ChainFirst \/ ChainAll \/ ChainKeys \/ ChainValues

ChainSpec == ChainInit /\ [][ChainNext]_vars

(***************************************************************************)
(* One rule of a Pattern translator and one call of its expand().  A       *)
(* caller writes a rule in one of the three shapes, builds                 *)
(* TranslatorByRegex([rule]) and expands a subject string with it.         *)
(***************************************************************************)
\* The most pieces a replacement text with '#' is built from.
MaxPieces == 3

\* The replacement texts with '#': up to MaxPieces of '#', '#UPPER#',
\* '#LOWER#', 'UPPER', 'a' and 'B' in a row.
CaseTexts ==
    { str_join(pieces) :
        pieces \in UNION {[1..n -> { <<"#">>, <<"#", "U", "P", "P", "E", "R", "#">>,
                                     <<"#", "L", "O", "W", "E", "R", "#">>,
                                     <<"U", "P", "P", "E", "R">>, <<"a">>, <<"B">> }]
                             : n \in 1..MaxPieces} }

\* The replacements: the texts with '#'; '1', r'\1', r'\\1', r'#UPPER#\1',
\* r'b#\1#LOWER#B#MIXED#B'; {'a':'b'}['a'], {'a':'b'}['c'], {'a':f()}['a'],
\* {\1}[0], x{'a':'b'}['a']{'a':f()}['a']; tuples, a list and a number.
ExpReplacements ==
    {S(t) : t \in CaseTexts}
    \cup { S(<<"1">>), S(<<"\\", "1">>), S(<<"\\", "\\", "1">>),
           S(<<"#", "U", "P", "P", "E", "R", "#", "\\", "1">>),
           S(<<"b", "#", "\\", "1", "#", "L", "O", "W", "E", "R", "#", "B",
               "#", "M", "I", "X", "E", "D", "#", "B">>),
           S(<<"{", "'", "a", "'", ":", "'", "b", "'", "}", "[", "'", "a", "'", "]">>),
           S(<<"{", "'", "a", "'", ":", "'", "b", "'", "}", "[", "'", "c", "'", "]">>),
           S(<<"{", "'", "a", "'", ":", "f", "(", ")", "}", "[", "'", "a", "'", "]">>),
           S(<<"{", "\\", "1", "}", "[", "0", "]">>),
           S(<<"x", "{", "'", "a", "'", ":", "'", "b", "'", "}", "[", "'", "a", "'", "]",
               "{", "'", "a", "'", ":", "f", "(", ")", "}", "[", "'", "a", "'", "]">>),
           PyTuple(<<S(<<"\\", "1">>), PyInt(5)>>),
           PyTuple(<<PyInt(5), S(<<"\\", "\\", "1">>)>>),
           PyTuple(<<S(<<"#", "U", "P", "P", "E", "R", "#", "\\", "1">>),
                     S(<<"{", "'", "a", "'", ":", "'", "b", "'", "}", "[", "'", "a", "'", "]">>)>>),
           PyList(<<S(<<"1">>), PyTuple(<<S(<<"\\", "1">>)>>), PyInt(7)>>),
           PyInt(7) }

\* The rules: (pattern, replacement) with the patterns 'a', '(.)', '(..)' and
\* '(...)'; (compiled, replacement) with re.compile('a') and
\* re.compile('^(..)$'); (pattern, flags, replacement) with 'a' and re.I.
ExpRules ==
    { <<S(p), r>> : p \in { <<"a">>, <<"(", ".", ")">>, <<"(", ".", ".", ")">>,
                            <<"(", ".", ".", ".", ")">> },
                    r \in ExpReplacements }
    \cup { <<c, r>> : c \in { re_compile(<<"a">>, {}),
                              re_compile(<<"^", "(", ".", ".", ")", "$">>, {}) },
                      r \in ExpReplacements }
    \cup { <<S(<<"a">>), {"IGNORECASE"}, r>> : r \in ExpReplacements }

\* 'a', 'A', 'ab', 'a' and a newline, a backslash and 'n', 'f()'
ExpStrings ==
    { S(<<"a">>), S(<<"A">>), S(<<"a", "b">>), S(<<"a", "LF">>), S(<<"\\", "n">>),
      S(<<"f", "(", ")">>) }

\* The texts _evaluate_dict passes to eval(): the spans in order, up to the
\* first whose eval() raises.
RECURSIVE evaluate_dict_evals(_)
evaluate_dict_evals(dicts) ==
    IF dicts = <<>> THEN <<>>
    ELSE <<Head(dicts)>>
         \o (IF IsRaise(eval(Head(dicts))) THEN <<>> ELSE evaluate_dict_evals(Tail(dicts)))

\* The texts passed to eval() by the loops of expand(), which end at the
\* first exception: for a string, those of _evaluate_dict on the text that
\* matchobj.expand() and _fix_case made of it.
RECURSIVE expand_evals(_, _, _)
expand_evals(matchobj, items, tupled) ==
    IF items = <<>> THEN <<>>
    ELSE (IF IsStr(Head(items))
          THEN IF IsRaise(match_expand(matchobj, Head(items).s)) THEN <<>>
               ELSE evaluate_dict_evals(
                        findall_dicts(_fix_case(match_expand(matchobj, Head(items).s).s)))
          ELSE IF IsTuple(Head(items)) /\ ~tupled
          THEN expand_evals(matchobj, Head(items).items, TRUE)
          ELSE <<>>)
         \o (IF IsRaise(expand_one(matchobj, Head(items), tupled)) THEN <<>>
             ELSE expand_evals(matchobj, Tail(items), tupled))

TranslatorByRegex_expand_evals(regex, string, replacements) ==
    IF re_match(regex, string.s) = None THEN <<>>
    ELSE expand_evals(re_match(regex, string.s),
                      IF IsList(replacements) THEN replacements.items
                      ELSE <<replacements>>,
                      FALSE)

ExpInit ==
    /\ NoExpansion
    /\ NoComposition /\ NoObjects /\ stmt = None

\* self = TranslatorByRegex([rule])
ExpConstruct ==
    /\ rule = None
    /\ rule' \in ExpRules
    /\ subject' = None /\ results' = None /\ evals' = <<>>
    /\ UNCHANGED <<A, B, R, op, query, xs, sf, q, objvars, C, stmt>>

\* results = TranslatorByRegex.expand(self.tuples[0][0], subject, self.tuples[0][1])
ExpExpand ==
    /\ rule # None
    /\ \E s \in ExpStrings :
          /\ subject' = s
          /\ results' = TranslatorByRegex_expand(
                            TranslatorByRegex(<<rule>>).tuples[1][1], s,
                            TranslatorByRegex(<<rule>>).tuples[1][2])
          /\ evals' = TranslatorByRegex_expand_evals(
                          TranslatorByRegex(<<rule>>).tuples[1][1], s,
                          TranslatorByRegex(<<rule>>).tuples[1][2])
    /\ UNCHANGED <<rule, A, B, R, op, query, xs, sf, q, objvars, C, stmt>>

ExpNext == ExpConstruct \/ ExpExpand

ExpSpec == ExpInit /\ [][ExpNext]_vars

(***************************************************************************)
(* Properties of composition.                                              *)
(***************************************************************************)
Composed == op \in {"append", "prepend"}

Last(seq) == seq[Len(seq)]
Front(seq) == SubSeq(seq, 1, Len(seq) - 1)

\* C1 as stated: for every translator A of any class, A.append(Empty) and
\* A.prepend(Empty) return the Empty translator.
C1_EmptyArgumentAlwaysWins ==
    (Composed /\ B.TAG = "NULL") => R = NullTranslator

\* C1 amended: A.append(Empty) and A.prepend(Empty) return the Empty
\* translator for every A that is not the Identity translator, and return
\* the Identity translator when A is the Identity translator.
C1_EmptyArgumentWinsExceptOverIdentity ==
    (Composed /\ B.TAG = "NULL") =>
        R = IF A.TAG = "SELF" THEN SelfTranslator ELSE NullTranslator

C1_Witness ==
    /\ op = "prepend" /\ A = D1 /\ B = NullTranslator /\ R = NullTranslator

\* C2 as stated: for every translator B, Empty.append(B) and
\* Empty.prepend(B) return the Empty translator.
C2_EmptyReceiverAbsorbs ==
    (Composed /\ A.TAG = "NULL") => R = NullTranslator

\* C2 amended: Empty.append(B) and Empty.prepend(B) return B itself, so the
\* result is the Empty translator only when B is.
C2_EmptyReceiverReturnsArgument ==
    (Composed /\ A.TAG = "NULL") => R = B

C2_Witness ==
    /\ op = "append" /\ A = NullTranslator /\ B = D2 /\ R = D2

\* C3: the translator NullTranslator.prepend(B) or NullTranslator.append(B)
\* returns answers first() and all() exactly as B does, for every input and
\* both traversal orders.
C3_NullComposedAnswersAsArgument ==
    (Composed /\ A.TAG = "NULL") =>
        /\ query = "first" => q = first(B, xs, sf)
        /\ query = "all" => q = all(B, xs, sf)

C3_Witness ==
    /\ op = "prepend" /\ A = NullTranslator /\ B = D1
    /\ query = "first" /\ xs = S(<<"a">>) /\ q = S(<<"1">>)

\* C4: when A is the Identity translator and B is Identity or Empty,
\* A.append(B) and A.prepend(B) return the Identity translator.
C4_IdentityAbsorbs ==
    (Composed /\ A.TAG = "SELF" /\ B.TAG \in {"SELF", "NULL"}) => R = SelfTranslator

C4_Witness ==
    /\ op = "prepend" /\ A = SelfTranslator /\ B = NullTranslator
    /\ R = SelfTranslator

\* The entries of the result are the receiver's followed by the argument's
\* for append, and the argument's followed by the receiver's for prepend.
Joined(a, b) == IF op = "append" THEN a \o b ELSE b \o a

\* C5 as stated: for A and B of the same class, for each of DICT, REGEX and
\* SEQUENCE, the result is one translator of that class holding the entries
\* of both in order, never a sequence that nests A and B.
C5_SameKindAlwaysMerges ==
    (Composed /\ A.TAG = B.TAG /\ A.TAG \in {"DICT", "REGEX", "SEQUENCE"}) =>
        /\ R.TAG = A.TAG
        /\ R.TAG = "REGEX" => R.tuples = Joined(A.tuples, B.tuples)
        /\ R.TAG = "SEQUENCE" => R.sequence = Joined(A.sequence, B.sequence)

\* C5 amended: two REGEX translators merge into one REGEX translator and
\* two SEQUENCE translators into one SEQUENCE translator, with the entries
\* joined in order; two DICT translators do not merge: the result is the
\* two-child sequence [A, B] for append and [B, A] for prepend.
C5_RegexAndSequenceMergeDictNests ==
    (Composed /\ A.TAG = B.TAG /\ A.TAG \in {"DICT", "REGEX", "SEQUENCE"}) =>
        /\ A.TAG = "REGEX" =>
              R = [TAG |-> "REGEX", tuples |-> Joined(A.tuples, B.tuples)]
        /\ A.TAG = "SEQUENCE" =>
              R = TranslatorBySequence(Joined(A.sequence, B.sequence))
        /\ A.TAG = "DICT" => R = TranslatorBySequence(Joined(<<A>>, <<B>>))

C5_Witness ==
    /\ op = "prepend" /\ A.TAG = "SEQUENCE" /\ B.TAG = "SEQUENCE"
    /\ A.sequence = <<D1, R1>> /\ B.sequence = <<R2, NullTranslator>>
    /\ R = TranslatorBySequence(<<R2, NullTranslator, D1, R1>>)

\* C6: for two REGEX translators the result is a REGEX translator whose
\* keys() is the keys() of the first followed by the keys() of the second,
\* and whose values() is joined the same way: A then B for append, B then A
\* for prepend, the order inside each operand kept.
C6_RegexMergeJoinsKeysAndValues ==
    (Composed /\ A.TAG = "REGEX" /\ B.TAG = "REGEX") =>
        /\ R.TAG = "REGEX"
        /\ TranslatorByRegex_keys(R) =
              Joined(TranslatorByRegex_keys(A), TranslatorByRegex_keys(B))
        /\ TranslatorByRegex_values(R) =
              Joined(TranslatorByRegex_values(A), TranslatorByRegex_values(B))

C6_Witness ==
    /\ op = "append" /\ A = R2 /\ B = R3
    /\ TranslatorByRegex_values(R) =
          <<S(<<"\\", "1", "\\", "1">>), S(<<"2">>), S(<<"4">>),
            PyTuple(<<S(<<"2">>), PyInt(5)>>)>>

\* The sequence S with the translator X merged into its last child (back)
\* or into its first child (front), and the condition under which
\* TranslatorBySequence.append / prepend do so.
MergesAtBack(S_, X) ==
    /\ Last(S_.sequence).TAG = X.TAG
    /\ append(Last(S_.sequence), X).TAG = X.TAG
MergesAtFront(S_, X) ==
    /\ Head(S_.sequence).TAG = X.TAG
    /\ prepend(Head(S_.sequence), X).TAG = X.TAG
SplicedAtBack(S_, X) ==
    TranslatorBySequence(Front(S_.sequence) \o <<append(Last(S_.sequence), X)>>)
SplicedAtFront(S_, X) ==
    TranslatorBySequence(<<prepend(Head(S_.sequence), X)>> \o Tail(S_.sequence))

\* C7 as stated: when a translator X that is not a sequence is appended to
\* a sequence whose last child has X's class, and merging that child with X
\* gives a translator of that class, the result is a sequence of the same
\* length with the last child replaced by the merge and the other children
\* unchanged; the same for prepend and the first child.
C7_SpliceForEveryNonSequence ==
    /\ (op = "append" /\ A.TAG = "SEQUENCE" /\ B.TAG # "SEQUENCE" /\ MergesAtBack(A, B))
          => R = SplicedAtBack(A, B)
    /\ (op = "prepend" /\ A.TAG = "SEQUENCE" /\ B.TAG # "SEQUENCE" /\ MergesAtFront(A, B))
          => R = SplicedAtFront(A, B)

\* C7 amended: the same, for a translator X that is neither a sequence nor
\* the Empty translator (an Empty X is returned as the result whatever the
\* children of the sequence are).
C7_SpliceForNonSequenceNonEmpty ==
    /\ (/\ op = "append" /\ A.TAG = "SEQUENCE" /\ B.TAG \notin {"SEQUENCE", "NULL"}
        /\ MergesAtBack(A, B))
          => /\ R = SplicedAtBack(A, B)
             /\ Len(R.sequence) = Len(A.sequence)
             /\ Front(R.sequence) = Front(A.sequence)
    /\ (/\ op = "prepend" /\ A.TAG = "SEQUENCE" /\ B.TAG \notin {"SEQUENCE", "NULL"}
        /\ MergesAtFront(A, B))
          => /\ R = SplicedAtFront(A, B)
             /\ Len(R.sequence) = Len(A.sequence)
             /\ Tail(R.sequence) = Tail(A.sequence)

C7_Witness ==
    /\ op = "append" /\ A = TranslatorBySequence(<<D1, R1>>) /\ B = R2
    /\ R = TranslatorBySequence(<<D1, [TAG |-> "REGEX", tuples |-> R1.tuples \o R2.tuples]>>)

\* Exactly one operand is a sequence, the other is neither a sequence nor
\* the Empty translator; AtBack tells whether the other one touches the
\* back of the sequence.
OneSequence ==
    /\ Composed
    /\ (A.TAG = "SEQUENCE") # (B.TAG = "SEQUENCE")
    /\ A.TAG # "NULL" /\ B.TAG # "NULL"
TheSequence == IF A.TAG = "SEQUENCE" THEN A ELSE B
TheOther == IF A.TAG = "SEQUENCE" THEN B ELSE A
AtBack == (op = "append") = (A.TAG = "SEQUENCE")

C9_DifferentKindsWrapInPair ==
    (/\ Composed /\ A.TAG \in {"DICT", "REGEX", "SELF"}
     /\ B.TAG \notin {A.TAG, "SEQUENCE", "NULL"})
        => R = TranslatorBySequence(Joined(<<A>>, <<B>>))

C9_Witness ==
    /\ op = "prepend" /\ A = R1 /\ B = SelfTranslator
    /\ R = TranslatorBySequence(<<SelfTranslator, R1>>)

\* The first result of X when there is one, else the first result of Y; an
\* exception raised by X is the outcome.
FirstOf(X, Y) ==
    IfNone(first(X, xs, FALSE), LAMBDA r : first(Y, xs, FALSE))

\* C10: for A and B not the Empty translator and a list xs, with the default
\* traversal, A.append(B).first(xs) is A.first(xs) when that is not None and
\* B.first(xs) otherwise, and A.prepend(B).first(xs) is B.first(xs) when that
\* is not None and A.first(xs) otherwise, whichever rule built the result.
C10_FirstOfComposition ==
    (/\ Composed /\ query = "first" /\ ~sf /\ IsList(xs)
     /\ A.TAG # "NULL" /\ B.TAG # "NULL")
        => q = IF op = "append" THEN FirstOf(A, B) ELSE FirstOf(B, A)

C10_Witness ==
    /\ op = "append" /\ A = TranslatorBySequence(<<D1, R1>>) /\ B = R2
    /\ query = "first" /\ ~sf /\ xs = PyList(<<S(<<"b">>), S(<<"a">>)>>)
    /\ first(A, xs, FALSE) = S(<<"1">>)
    /\ first(B, xs, FALSE) = S(<<"b", "b">>)
    /\ q = S(<<"1">>)

(***************************************************************************)
(* Properties of the objects under composition.                            *)
(***************************************************************************)
Objects(h) == {i \in DOMAIN h : h[i].k = "obj"}

\* The inputs the operands are asked about.
ProbeInputs ==
    { PyList(<<S(<<"a">>), S(<<"b">>)>>), S(<<"a">>) }

\* C11: after any sequence of append, prepend, "+" and "+=" statements,
\* every list, dict and translator object that exists is exactly as it was
\* when it was created (the child list of every sequence, the rule list of
\* every Pattern translator, the mapping of every Exact-Match translator),
\* and every translator the caller holds answers all() and first() as it
\* did then.
C11_ExistingTranslatorsUnchanged ==
    /\ Len(born) = Len(heap)
    /\ \A i \in DOMAIN born : heap[i] = born[i]
    /\ \A i \in Objects(born) : translator_at(heap, i) = translator_at(born, i)
    /\ \A i \in {names[n] : n \in Names} :
          /\ \A strings \in ProbeInputs :
                /\ all(translator_at(heap, i), strings, FALSE)
                      = all(translator_at(born, i), strings, FALSE)
                /\ first(translator_at(heap, i), strings, FALSE)
                      = first(translator_at(born, i), strings, FALSE)

\* x = TranslatorBySequence([dict, regex]) was extended by "x += x" or by
\* "y = x + x": the four-child sequence is a new object with a new list, and
\* the two-child sequence still exists with its two children.
C11_Witness ==
    \E i \in Objects(heap), j \in Objects(heap) :
        /\ heap[i].TAG = "SEQUENCE" /\ heap[j].TAG = "SEQUENCE"
        /\ sequence_of(heap, i) = <<2, 4>>
        /\ sequence_of(heap, j) = <<2, 4, 2, 4>>
        /\ heap[i].sequence # heap[j].sequence
        /\ j \in {names[n] : n \in Names}

(***************************************************************************)
(* Properties of the queries.  They are asked of R, which is a translator  *)
(* of any class: NullTranslator().append(B) is B.                          *)
(***************************************************************************)
NoRepeats(items) ==
    \A i \in DOMAIN items, j \in DOMAIN items : i # j => items[i] # items[j]

FirstOccurrences(items) ==
    LET keep == {i \in DOMAIN items : \A j \in 1..(i - 1) : items[j] # items[i]}
        nth(k) == CHOOSE i \in keep : Cardinality({j \in keep : j <= i}) = k
    IN  [k \in 1..Cardinality(keep) |-> items[nth(k)]]

RECURSIVE Flatten(_)
Flatten(lists) ==
    IF lists = <<>> THEN <<>> ELSE Head(lists) \o Flatten(Tail(lists))

\* The results of a child for a list of strings, as a sequence of entries.
ChildResults(child, strings) == all(child, PyList(strings), FALSE).items

\* C13: for a sequence with children c1..cn and a list xs, all(xs) with
\* strings_first false is the first occurrences of c1.all(xs) ++ ... ++
\* cn.all(xs), and all(xs) with strings_first true is the first occurrences
\* of the results, string by string of xs and then child by child, of the
\* child for that one string.
C13_SequenceAllIsChildrenInOrder ==
    (query = "all" /\ R.TAG = "SEQUENCE" /\ IsList(xs)) =>
        LET n == Len(R.sequence)
            m == Len(xs.items)
        IN  q = PyList(FirstOccurrences(
                IF sf
                THEN Flatten([k \in 1..(m * n) |->
                        ChildResults(R.sequence[((k - 1) % n) + 1],
                                     <<xs.items[((k - 1) \div n) + 1]>>)])
                ELSE Flatten([i \in 1..n |-> ChildResults(R.sequence[i], xs.items)])))

\* The entries rule i of the Pattern translator R produces for the k-th
\* string of xs, the entries it produces over all of xs, and the entries all
\* the rules produce for the k-th string.
Produced(i, k) ==
    Range(TranslatorByRegex_expand(R.tuples[i][1], xs.items[k], R.tuples[i][2]).items)
ByRule(i) == UNION {Produced(i, k) : k \in DOMAIN xs.items}
ByString(k) == UNION {Produced(i, k) : i \in DOMAIN R.tuples}
FirstRule(v) == CHOOSE i \in DOMAIN R.tuples :
                    v \in ByRule(i) /\ \A j \in 1..(i - 1) : v \notin ByRule(j)
FirstString(v) == CHOOSE k \in DOMAIN xs.items :
                    v \in ByString(k) /\ \A j \in 1..(k - 1) : v \notin ByString(j)

\* C14: for a Pattern translator and a list xs, all(xs) holds every entry
\* some rule produces for some string, each once.  With strings_first false
\* every entry produced by rule i stands before every entry first produced
\* by a later rule; with strings_first true every entry produced for input
\* k stands before every entry first produced for a later input.
C14_RegexAllOrder ==
    (query = "all" /\ R.TAG = "REGEX" /\ IsList(xs)) =>
        /\ IsList(q)
        /\ NoRepeats(q.items)
        /\ Range(q.items) = UNION {ByRule(i) : i \in DOMAIN R.tuples}
        /\ ~sf => \A a \in DOMAIN q.items, b \in DOMAIN q.items, i \in DOMAIN R.tuples :
                      (q.items[a] \in ByRule(i) /\ FirstRule(q.items[b]) > i) => a < b
        /\ sf => \A a \in DOMAIN q.items, b \in DOMAIN q.items, k \in DOMAIN xs.items :
                      (q.items[a] \in ByString(k) /\ FirstString(q.items[b]) > k) => a < b

\* [('(.)', r'\1\1'), ('b', '2')] asked string-major about ['b', 'a'].
C14_Witness ==
    /\ query = "all" /\ R = R2 /\ sf
    /\ xs = PyList(<<S(<<"b">>), S(<<"a">>)>>)
    /\ q = PyList(<<S(<<"b", "b">>), S(<<"2">>), S(<<"a", "a">>)>>)

\* The lookup keys of the Exact-Match translator R for the input xs: the
\* strings, or what the key-normalizing translator makes of them.
LookupKeys ==
    IF R.path_translator = None THEN AsList(xs).items
    ELSE all(R.path_translator, AsList(xs), FALSE).items

PresentKeys == SelectSeq(LookupKeys, LAMBDA key : key \in DOMAIN R.dict)

\* C15: for an Exact-Match translator, all(xs) is the derived values of the
\* lookup keys that are in the mapping, in key order, without the later
\* occurrences of a value already in the result.
C15_DictAllInKeyOrder ==
    (query = "all" /\ R.TAG = "DICT") =>
        q = PyList(FirstOccurrences(Flatten(
                [i \in 1..Len(PresentKeys) |->
                    TranslatorByDict_expand(R.dict[PresentKeys[i]], PresentKeys[i])])))

\* {'a': '3', 'b': ['2', '\1x']} asked about ['b', 'a'], and the translator
\* with normalized keys is reachable too.
C15_Witness ==
    /\ query = "all" /\ R = D2
    /\ xs = PyList(<<S(<<"b">>), S(<<"a">>)>>)
    /\ q = PyList(<<S(<<"2">>), S(<<"b", "x">>), S(<<"3">>)>>)

\* The first entry of a list, or None for the empty list.
HeadOrNone(list) == IF list.items = <<>> THEN None ELSE list.items[1]

\* C16: for an Exact-Match, Pattern or Sequence translator, any input and
\* either traversal order, first() returns the first entry of what all()
\* returns for the same arguments, and None when all() returns the empty
\* list.
C16_FirstIsHeadOfAll ==
    (query = "first" /\ R.TAG \in {"DICT", "REGEX", "SEQUENCE"}) =>
        q = HeadOrNone(all(R, xs, sf))

\* C17: a query for which nothing matches returns the empty list from all()
\* and None from first(), for a translator of any class and both traversal
\* orders: no query ends in an exception, and a query with an empty input
\* list returns the empty list or None.
C17_NoMatchIsNeverAnError ==
    query \in {"first", "all"} =>
        /\ ~IsRaise(q)
        /\ xs = PyList(<<>>) => q = IF query = "all" THEN PyList(<<>>) ELSE None

\* C18: for A an Exact-Match or Pattern translator, A.append(Identity) and
\* both traversal orders: all(xs) for a list xs holds exactly the results of
\* A for xs and the strings of xs, each whole; first(s) for a single string
\* s is the result of A when A matches s and s itself when it does not.
C18_IdentityEchoesWholeStrings ==
    (op = "append" /\ A.TAG \in {"DICT", "REGEX"} /\ B.TAG = "SELF") =>
        /\ (query = "all" /\ IsList(xs)) =>
              /\ IsList(q)
              /\ Range(q.items) = Range(all(A, xs, sf).items) \cup Range(xs.items)
        /\ (query = "first" /\ IsStr(xs)) =>
              q = IF first(A, xs, sf) # None THEN first(A, xs, sf) ELSE xs

WithKey(string, key) ==
    LET at == {i \in 1..(Len(string) - 1) : string[i] = "\\" /\ string[i + 1] = "1"}
    IN  Flatten([i \in 1..Len(string) |->
                    IF i \in at THEN key
                    ELSE IF (i - 1) \in at THEN <<>>
                    ELSE <<string[i]>>])

\* The value derived from one stored value, and the derived values of what
\* is stored under a key.
Derived(value, key) ==
    IF IsStr(value) THEN PyStr(WithKey(value.s, key.s))
    ELSE IF IsTuple(value)
    THEN PyTuple([i \in 1..Len(value.items) |->
                     IF IsStr(value.items[i])
                     THEN PyStr(WithKey(value.items[i].s, key.s))
                     ELSE value.items[i]])
    ELSE value
DerivedValues(key) ==
    IF IsList(R.dict[key])
    THEN [i \in 1..Len(R.dict[key].items) |-> Derived(R.dict[key].items[i], key)]
    ELSE <<Derived(R.dict[key], key)>>

\* C20: in an Exact-Match lookup every \1 in a stored string, and in each
\* string of a stored tuple, is replaced by the lookup key (the normalized
\* key when there is a key-normalizing translator); other values and other
\* tuple elements are returned as stored; a stored list gives one derived
\* value per item, in order.
C20_DictValuesCarryTheKey ==
    (R # None /\ R.TAG = "DICT") =>
        /\ query = "all" =>
              q = PyList(FirstOccurrences(Flatten(
                      [i \in 1..Len(PresentKeys) |-> DerivedValues(PresentKeys[i])])))
        /\ query = "first" =>
              q = IF PresentKeys = <<>> THEN None
                  ELSE DerivedValues(PresentKeys[1])[1]

\* {'1': [(r'\1z\1', 5), 7]} with keys normalized by [('a', '1')].
C20_Witness ==
    /\ R = D3 /\ query = "all" /\ xs = PyList(<<S(<<"b">>), S(<<"a">>)>>)
    /\ q = PyList(<<PyTuple(<<S(<<"1", "z", "1">>), PyInt(5)>>), PyInt(7)>>)

(***************************************************************************)
(* Properties of one rule and its expansion.                               *)
(***************************************************************************)
\* The pattern and the flags a rule was written with.
RulePattern == IF IsStr(rule[1]) THEN rule[1].s ELSE rule[1].pattern
RuleFlags ==
    IF Len(rule) = 3 THEN rule[2] ELSE IF IsStr(rule[1]) THEN {} ELSE rule[1].flags

\* The pattern matches the string from its first to its last character:
\* group parentheses and anchors aside, it has one atom for each character,
\* "." for any character but a newline and a literal for itself (or for the
\* same letter in the other case under IGNORECASE).
MatchesWhole(pattern, flags, s) ==
    LET atoms == SelectSeq(pattern, LAMBDA c : c \notin {"(", ")", "^", "$"})
    IN  /\ Len(atoms) = Len(s)
        /\ \A i \in 1..Len(s) :
              IF atoms[i] = "." THEN s[i] # "LF"
              ELSE \/ atoms[i] = s[i]
                   \/ "IGNORECASE" \in flags /\ char_lower(atoms[i]) = char_lower(s[i])

Expanded == rule # None /\ subject # None

\* C21: a rule given in any of the three shapes produces a result for a
\* string only when its pattern matches the whole string, from the first to
\* the last character; a pattern that matches a part of the string produces
\* nothing.
C21_OnlyWholeStringMatches ==
    (Expanded /\ results # PyList(<<>>)) =>
        MatchesWhole(RulePattern, RuleFlags, subject.s)

\* The compiled pattern and the replacement of the rule, the match of the
\* subject, and the replacement text after back-reference substitution.
RuleRegex == TranslatorByRegex(<<rule>>).tuples[1][1]
Replacement == TranslatorByRegex(<<rule>>).tuples[1][2]
Matched == Expanded /\ re_match(RuleRegex, subject.s) # None
Substituted == match_expand(re_match(RuleRegex, subject.s), Replacement.s)

\* A text read from left to right: a marker token #UPPER#, #LOWER# or
\* #MIXED# is removed and sets the mode, and every other character is kept,
\* in the case of the mode.
RECURSIVE CaseFixed(_, _)
CaseFixed(text, mode) ==
    IF text = <<>> THEN <<>>
    ELSE IF \E m \in CaseMarkers : StartsWith(text, <<"#">> \o m \o <<"#">>)
    THEN CaseFixed(Drop(text, 7), SubSeq(text, 2, 6))
    ELSE <<IF mode = <<"U", "P", "P", "E", "R">> THEN char_upper(Head(text))
           ELSE IF mode = <<"L", "O", "W", "E", "R">> THEN char_lower(Head(text))
           ELSE Head(text)>> \o CaseFixed(Tail(text), mode)

\* C22: case-fixing of a replacement text after back-reference substitution
\* removes each marker token #UPPER#, #LOWER#, #MIXED# and puts every other
\* stretch of text in the case of the nearest marker before it (unchanged
\* when there is none); every '#' that is not part of a marker token and
\* every UPPER, LOWER, MIXED that is not inside '#...#' is in the output.
C22_CaseFixingKeepsWhatIsNoMarker ==
    (Matched /\ IsStr(Replacement) /\ IsStr(Substituted)) =>
        results = Try(_evaluate_dict(CaseFixed(Substituted.s, <<"M", "I", "X", "E", "D">>)),
                      LAMBDA result : PyList(<<result>>))

\* A text of the form {'k':'v'}['k2'] or {'k': 'v'}['k2']: a mapping of one
\* string constant to another, indexed by a string constant.
LiteralLookup(d) ==
    LET quotes == {i \in DOMAIN d : d[i] = "'"}
        nth(n) == CHOOSE i \in quotes : Cardinality({j \in quotes : j <= i}) = n
    IN  /\ Cardinality(quotes) = 6
        /\ d[1] = "{" /\ nth(1) = 2
        /\ SubSeq(d, nth(2) + 1, nth(3) - 1) \in { <<":">>, <<":", " ">> }
        /\ SubSeq(d, nth(4) + 1, nth(5) - 1) = <<"}", "[">>
        /\ nth(6) = Len(d) - 1 /\ d[Len(d)] = "]"

\* C23: the inline-expression step evaluates only a literal mapping indexed
\* by a literal key: no call of expand() passes to eval() a text that holds
\* any other expression (a function call, a name lookup, arithmetic).
C23_EvaluatesOnlyLiteralLookups ==
    \A i \in DOMAIN evals : LiteralLookup(evals[i])

\* What element i of a tuple replacement produces when it is given as a bare
\* replacement for the same match.
AsBare(i) == TranslatorByRegex_expand(RuleRegex, subject, Replacement.items[i])

\* C28: for a match, a tuple replacement yields one tuple of the same
\* length; every element that is not a string is the element itself and
\* every string element is the value the same string produces as a bare
\* replacement (one back-reference substitution, case-fixing, inline
\* lookup), also when the captured text holds a backslash.
C28_TupleItemsAsBareStrings ==
    (Matched /\ IsTuple(Replacement)) =>
        IF \E i \in DOMAIN Replacement.items : IsRaise(AsBare(i))
        THEN IsRaise(results)
        ELSE results = PyList(<<PyTuple([i \in DOMAIN Replacement.items |->
                                            IF IsStr(Replacement.items[i])
                                            THEN AsBare(i).items[1]
                                            ELSE Replacement.items[i]])>>)

\* ---------------------------------------------------------------------
\* Properties of chains of compositions
\* ---------------------------------------------------------------------

\* The translators the three names are bound to.
Operands == {A, B, C}

\* C24: the constructor never returns a Sequence translator with zero
\* children: a call with an empty child list fails at construction.
C24_NoEmptySequenceConstructed ==
    \A t \in Operands : t.TAG = "SEQUENCE" => Len(t.sequence) > 0

\* ---------------------------------------------------------------------
\* Properties of the operator forms
\* ---------------------------------------------------------------------

\* What stmt.self.append(stmt.other) returns on the heap the statement ran on.
AppendOfStatement == obj_append(stmt.heap, stmt.self, stmt.other)

\* C26: after "v = a + b" the name v refers to the object a.append(b)
\* returns, and after "a += b" the name a does; the heap is the one that
\* call of append leaves, and the object a referred to before the statement
\* is the translator it was.
C26_OperatorsAreAppend ==
    stmt # None =>
        /\ names[stmt.v] = AppendOfStatement.ref
        /\ heap = AppendOfStatement.heap
        /\ translator_at(heap, stmt.self) = translator_at(stmt.heap, stmt.self)

\* "a += b" has run with a a Sequence and b another object: a is bound to a
\* new object.
C26_Witness ==
    /\ stmt # None
    /\ names[stmt.v] > Len(stmt.heap)
    /\ stmt.self # stmt.other
    /\ heap[stmt.self].TAG = "SEQUENCE"
    /\ stmt.operator = "+="

\* ---------------------------------------------------------------------
\* Properties of keys() and values()
\* ---------------------------------------------------------------------

\* k is the list that keys() of t is to be: the mapping's keys in ascending
\* order, the rules' patterns in declaration order, one sub-list per child,
\* or nothing.
RECURSIVE KeysAsClaimed(_, _)
KeysAsClaimed(t, k) ==
    /\ IsList(k)
    /\ CASE t.TAG = "DICT" ->
              /\ Len(k.items) = Cardinality(DOMAIN t.dict)
              /\ {k.items[i] : i \in DOMAIN k.items} = DOMAIN t.dict
              /\ \A i, j \in DOMAIN k.items :
                    i < j => str_lt(k.items[i].s, k.items[j].s)
         [] t.TAG = "REGEX" ->
              /\ Len(k.items) = Len(t.tuples)
              /\ \A i \in DOMAIN k.items : k.items[i] = t.tuples[i][1]
         [] t.TAG = "SEQUENCE" ->
              /\ Len(k.items) = Len(t.sequence)
              /\ \A i \in DOMAIN k.items : KeysAsClaimed(t.sequence[i], k.items[i])
         [] OTHER -> k.items = <<>>

\* v is parallel to the keys k of t: as long as k, and its i-th entry is
\* what t stores for the i-th key.
RECURSIVE ValuesAsClaimed(_, _, _)
ValuesAsClaimed(t, k, v) ==
    /\ IsList(v)
    /\ Len(v.items) = Len(k.items)
    /\ CASE t.TAG = "DICT" ->
              \A i \in DOMAIN v.items : v.items[i] = t.dict[k.items[i]]
         [] t.TAG = "REGEX" ->
              \A i \in DOMAIN v.items : v.items[i] = t.tuples[i][2]
         [] t.TAG = "SEQUENCE" ->
              \A i \in DOMAIN v.items :
                  ValuesAsClaimed(t.sequence[i], k.items[i], v.items[i])
         [] OTHER -> TRUE

\* C25: keys() of an Exact-Match translator is its mapping's keys in
\* ascending order, of a Pattern translator its rules' patterns in
\* declaration order, of a Sequence one sub-list per child (the child's
\* own keys(), not flattened), of Identity and Empty the empty list; and
\* values() is parallel to keys(): as long, the i-th value stored for the
\* i-th key.
C25_ValuesParallelToKeys ==
    /\ query = "keys" => KeysAsClaimed(R, q)
    /\ query = "values" => ValuesAsClaimed(R, keys(R), q)

\* values() of a Sequence that has the two-key mapping D2 among its
\* children and a second child.
C25_Witness ==
    /\ query = "values"
    /\ R.TAG = "SEQUENCE"
    /\ Len(R.sequence) > 1
    /\ \E i \in DOMAIN R.sequence : R.sequence[i] = D2

\* Every Sequence in t, t itself and the children at any depth, has at
\* least one child.
RECURSIVE NonEmptyDeep(_)
NonEmptyDeep(t) ==
    t.TAG = "SEQUENCE" =>
        /\ Len(t.sequence) > 0
        /\ \A i \in DOMAIN t.sequence : NonEmptyDeep(t.sequence[i])

\* C27: when every Sequence among the operands has at least one child,
\* the append and prepend calls of a chain all return a translator (no
\* access to a first or last child fails) and every Sequence in the
\* result, at the top or nested, has at least one child.
C27_SequencesStayNonEmpty ==
    (R # None /\ \A t \in Operands : NonEmptyDeep(t)) =>
        "TAG" \in DOMAIN R /\ NonEmptyDeep(R)

\* A chain on a constructed Sequence and two leaves has given a Sequence
\* that merged an operand into a child.
C27_Witness ==
    /\ R # None /\ query = "none"
    /\ \A t \in Operands : NonEmptyDeep(t)
    /\ A.TAG = "SEQUENCE" /\ B.TAG # "SEQUENCE" /\ C.TAG # "SEQUENCE"
    /\ op = <<"left", "append", "append">>
    /\ "TAG" \in DOMAIN R /\ R.TAG = "SEQUENCE"
    /\ Len(R.sequence) = Len(A.sequence)

\* ---------------------------------------------------------------------
\* Properties of merged and chained compositions under queries
\* ---------------------------------------------------------------------

\* The unmerged two-child Sequence [A, B].
Unmerged == TranslatorBySequence(<<A, B>>)

\* C29: for two Pattern translators A and B, the merged A.append(B)
\* answers all(xs) and first(xs), for every input and both traversal
\* orders, as the two-child Sequence [A, B] does.
C29_MergedAnswersAsPair ==
    (op = "append" /\ A.TAG = "REGEX" /\ B.TAG = "REGEX") =>
        /\ query = "all" => q = all(Unmerged, xs, sf)
        /\ query = "first" => q = first(Unmerged, xs, sf)

\* all() with strings_first of the merged rules of R1 and R2, asked about
\* two strings that both operands translate.
C29_Witness ==
    /\ op = "append" /\ A = R1 /\ B = R2
    /\ R.TAG = "REGEX" /\ Len(R.tuples) = 3
    /\ query = "all" /\ sf
    /\ xs = PyList(<<S(<<"b">>), S(<<"a">>)>>)
    /\ IsList(q) /\ Len(q.items) > 2

\* The chain of the state with its two calls grouped the other way, and
\* what it answers to the query of the state.
Regrouped ==
    chain(IF op[1] = "left" THEN "right" ELSE "left", op[2], op[3], A, B, C)

RegroupedAnswer ==
    IF "TAG" \notin DOMAIN Regrouped THEN Regrouped
    ELSE IF query = "all" THEN all(Regrouped, xs, sf)
    ELSE first(Regrouped, xs, sf)

\* A chain of two append() calls has been asked all() or first().
AppendedTwice ==
    /\ R # None
    /\ op[2] = "append" /\ op[3] = "append"
    /\ query \in {"all", "first"}

====
